---- MODULE Spec2Model ----
(***************************************************************************)
(* CacheManager (packages/backend-defaults/src/entrypoints/cache):         *)
(* store-kind selection, lazily created shared store handles, per-plugin   *)
(* namespaced Keyv instances, TTL resolution and error routing.            *)
(***************************************************************************)
EXTENDS Integers, Sequences, FiniteSets, TLC

VARIABLES
  config,     \* the configuration and options handed to fromConfig / the constructor
  manager,    \* the CacheManager object: its fields and its factories' closure slots
  handles,    \* every shared store handle constructed so far (Map, KeyvRedis, KeyvMemcache)
  stores,     \* every Keyv instance constructed so far
  calls,      \* history: the arguments of every clientFactory call, in order
  clients,    \* every DefaultCacheClient constructed so far
  lastOp,     \* history: the get/set/delete the last step issued through a client, if any
  lastError,  \* history: what the backend error of the last step caused, if any
  others      \* the CacheManager objects of the process other than manager

vars == <<config, manager, handles, stores, calls, clients, lastOp, lastError, others>>

----------------------------------------------------------------------------
(* Bounds and input domains *)

MaxStores == 3
MaxManagers == 2

PluginIds == {"a", "b"}
Keys == {"x"}
\* The values a plugin writes carry its id, so that a value read back tells
\* which plugin wrote it.
Values(pluginId) == {pluginId \o "1"}

\* An optional value: <<>> is undefined, <<v>> is v.
Undefined == <<>>
Some(v) == <<v>>
Opt(S) == {Undefined} \cup {Some(v) : v \in S}

CallTtls == {0}
ManagerTtls == {7}
Connections == {"redis://h"}
\* Config.getOptionalString rejects an empty string, so a configured string
\* is never empty.
ConfiguredStores == {"redis", "memcache", "memory", "postgres"}
Loggers == {"none", "logger"}
ErrorHandlers == {"none", "returns", "throws"}

----------------------------------------------------------------------------
(* Helpers of the language *)

\* a ?? b
Coalesce(a, b) == IF a # Undefined THEN a ELSE b

\* a || b on optional strings: the empty string is falsy too
OrElse(a, b) == IF a # Undefined /\ a # Some("") THEN a ELSE Some(b)

----------------------------------------------------------------------------
(* The store handles and Keyv, as CacheManager uses them *)

EmptyMap == [k \in {} |-> ""]
MapSet(m, k, v) == [j \in DOMAIN m \cup {k} |-> IF j = k THEN v ELSE m[j]]
MapGet(m, k) == IF k \in DOMAIN m THEN Some(m[k]) ELSE Undefined
MapDelete(m, k) == [j \in DOMAIN m \ {k} |-> m[j]]

\* new Map() / new KeyvRedis(connection) / new KeyvMemcache(connection).
\* A Map is no event emitter; the two network adapters are, and `listeners'
\* are the Keyv instances subscribed to the handle's 'error' event.
NewHandle(kind, connection) ==
  [kind |-> kind, connection |-> connection, map |-> EmptyMap,
   emitter |-> kind # "memory", listeners |-> <<>>]

\* The key Keyv uses in the underlying store: `${namespace}:${key}`.
KeyPrefix(namespace, key) == namespace \o ":" \o key

\* new Keyv({namespace, ttl, store, useRedisSets}) in the world w; the new
\* instance is the last element of the result's stores.  Keyv's constructor
\* subscribes the instance to the 'error' event of a store that has `on'.
\* `listeners' counts the listeners on the instance's own 'error' event.
Keyv(w, namespace, ttl, store, useRedisSets) ==
  LET id == Len(w.stores) + 1
      inst == [namespace |-> namespace, ttl |-> ttl, store |-> store,
               useRedisSets |-> useRedisSets, listeners |-> 0]
  IN [w EXCEPT !.stores = Append(@, inst),
               !.handles = IF w.handles[store].emitter
                           THEN [@ EXCEPT ![store].listeners = Append(@, id)]
                           ELSE @]

----------------------------------------------------------------------------
(* CacheManager *)

\* The keys of storeFactories.
storeFactories == {"redis", "memcache", "memory"}

\* The closure returned by createRedisStoreFactory: `store' is the closure
\* slot manager.redis (0 while undefined).
createRedisStoreFactoryUnguarded(w, pluginId, defaultTtl) ==
  LET hs == Append(w.handles, NewHandle("redis", w.manager.connection))
      w1 == [w EXCEPT !.handles = hs, !.manager.redis = Len(hs)]
  IN Keyv(w1, pluginId, defaultTtl, w1.manager.redis, Some(w1.manager.useRedisSets))

createRedisStoreFactoryTtlNamespace(w, pluginId, defaultTtl) ==
  LET hs == Append(w.handles, NewHandle("redis", w.manager.connection))
      w1 == IF w.manager.redis = 0
            THEN [w EXCEPT !.handles = hs, !.manager.redis = Len(hs)]
            ELSE w
  IN Keyv(w1, IF defaultTtl = Undefined THEN pluginId ELSE pluginId \o ":ttl",
          defaultTtl, w1.manager.redis, Some(w1.manager.useRedisSets))

createRedisStoreFactory(w, pluginId, defaultTtl) ==
  LET hs == Append(w.handles, NewHandle("redis", w.manager.connection))
      w1 == IF w.manager.redis = 0
            THEN [w EXCEPT !.handles = hs, !.manager.redis = Len(hs)]
            ELSE w
  IN Keyv(w1, pluginId, defaultTtl, w1.manager.redis, Some(w1.manager.useRedisSets))

createMemcacheStoreFactoryNoNamespace(w, pluginId, defaultTtl) ==
  LET hs == Append(w.handles, NewHandle("memcache", w.manager.connection))
      w1 == IF w.manager.memcache = 0
            THEN [w EXCEPT !.handles = hs, !.manager.memcache = Len(hs)]
            ELSE w
  IN Keyv(w1, "", defaultTtl, w1.manager.memcache, Undefined)

createMemcacheStoreFactoryUnguarded(w, pluginId, defaultTtl) ==
  LET hs == Append(w.handles, NewHandle("memcache", w.manager.connection))
      w1 == [w EXCEPT !.handles = hs, !.manager.memcache = Len(hs)]
  IN Keyv(w1, pluginId, defaultTtl, w1.manager.memcache, Undefined)

\* The closure returned by createMemcacheStoreFactory.
createMemcacheStoreFactory(w, pluginId, defaultTtl) ==
  LET hs == Append(w.handles, NewHandle("memcache", w.manager.connection))
      w1 == IF w.manager.memcache = 0
            THEN [w EXCEPT !.handles = hs, !.manager.memcache = Len(hs)]
            ELSE w
  IN Keyv(w1, pluginId, defaultTtl, w1.manager.memcache, Undefined)

\* The closure returned by createMemoryStoreFactory: the Map was constructed
\* when the factory was created, with the manager.
createMemoryStoreFactoryFreshMap(w, pluginId, defaultTtl) ==
  LET hs == Append(w.handles, NewHandle("memory", ""))
  IN Keyv([w EXCEPT !.handles = hs], pluginId, defaultTtl, Len(hs), Undefined)

createMemoryStoreFactoryNoNamespace(w, pluginId, defaultTtl) ==
  Keyv(w, "", defaultTtl, w.manager.memory, Undefined)

createMemoryStoreFactory(w, pluginId, defaultTtl) ==
  Keyv(w, pluginId, defaultTtl, w.manager.memory, Undefined)

getClientWithTtlShared(w, pluginId, ttl) ==
  LET w1 == CASE w.manager.store = "redis" -> createRedisStoreFactory(w, pluginId, ttl)
              [] w.manager.store = "memcache" -> createMemcacheStoreFactory(w, pluginId, ttl)
              [] w.manager.store = "memory" -> createMemoryStoreFactory(w, pluginId, ttl)
  IN [w1 EXCEPT !.stores = [i \in DOMAIN @ |->
                              IF @[i].namespace = pluginId
                              THEN [@[i] EXCEPT !.ttl = ttl] ELSE @[i]]]

getClientWithTtlAlwaysRedis(w, pluginId, ttl) ==
  createRedisStoreFactory(w, pluginId, ttl)

getClientWithTtl(w, pluginId, ttl) ==
  CASE w.manager.store = "redis" -> createRedisStoreFactory(w, pluginId, ttl)
    [] w.manager.store = "memcache" -> createMemcacheStoreFactory(w, pluginId, ttl)
    [] w.manager.store = "memory" -> createMemoryStoreFactory(w, pluginId, ttl)

ResolveTtlFalsy(options, managerTtl) ==
  IF options.defaultTtl \notin {Undefined, Some(0)} THEN options.defaultTtl ELSE managerTtl

\* options.defaultTtl ?? this.defaultTtl
ResolveTtl(options, managerTtl) == Coalesce(options.defaultTtl, managerTtl)

clientFactoryNoListener(w, pluginId, options) ==
  LET w1 == getClientWithTtl(w, pluginId, ResolveTtl(options, w.manager.defaultTtl))
  IN [w1 EXCEPT !.calls = Append(@, [pluginId |-> pluginId, options |-> options])]

\* clientFactory of forPlugin(pluginId).getClient: build the Keyv instance and
\* attach the manager's error listener to it.
clientFactory(w, pluginId, options) ==
  LET w1 == getClientWithTtl(w, pluginId, ResolveTtl(options, w.manager.defaultTtl))
      id == Len(w1.stores)
  IN [w1 EXCEPT !.stores[id].listeners = @ + 1,
                !.calls = Append(@, [pluginId |-> pluginId, options |-> options])]

ConstructorUnchecked(hs, store, connectionString, useRedisSets, errorHandler, logger, defaultTtl) ==
  LET hs1 == Append(hs, NewHandle("memory", ""))
  IN [handles |-> hs1,
      manager |->
        [phase |-> "built",
         store |-> store, connection |-> connectionString,
         useRedisSets |-> useRedisSets, errorHandler |-> errorHandler,
         logger |-> logger, defaultTtl |-> defaultTtl,
         redis |-> 0, memcache |-> 0, memory |-> Len(hs1)]]

ConstructorEager(hs, store, connectionString, useRedisSets, errorHandler, logger, defaultTtl) ==
  LET hs1 == <<NewHandle("redis", connectionString),
               NewHandle("memcache", connectionString),
               NewHandle("memory", "")>>
  IN [handles |-> hs \o hs1,
      manager |->
        [phase |-> IF store \in storeFactories THEN "built" ELSE "failed",
         store |-> store, connection |-> connectionString,
         useRedisSets |-> useRedisSets, errorHandler |-> errorHandler,
         logger |-> logger, defaultTtl |-> defaultTtl,
         redis |-> Len(hs) + 1, memcache |-> Len(hs) + 2, memory |-> Len(hs) + 3]]

\* The constructor: the field initialisers run first (the three factories,
\* the memory factory constructing its Map), then the store kind is checked.
Constructor(hs, store, connectionString, useRedisSets, errorHandler, logger, defaultTtl) ==
  LET hs1 == Append(hs, NewHandle("memory", ""))
  IN [handles |-> hs1,
      manager |->
        [phase |-> IF store \in storeFactories THEN "built" ELSE "failed",
         store |-> store, connection |-> connectionString,
         useRedisSets |-> useRedisSets, errorHandler |-> errorHandler,
         logger |-> logger, defaultTtl |-> defaultTtl,
         redis |-> 0, memcache |-> 0, memory |-> Len(hs1)]]

fromConfigSetsOr(hs, cfg) ==
  Constructor(hs,
              OrElse(cfg.store, "memory")[1],
              OrElse(cfg.connection, "")[1],
              TRUE,
              cfg.onError,
              cfg.logger,
              cfg.defaultTtl)

\* fromConfig: the constructor's arguments from the configuration.
fromConfig(hs, cfg) ==
  Constructor(hs,
              OrElse(cfg.store, "memory")[1],
              OrElse(cfg.connection, "")[1],
              Coalesce(cfg.useRedisSets, Some(TRUE))[1],
              cfg.onError,
              cfg.logger,
              cfg.defaultTtl)

----------------------------------------------------------------------------
(* Error routing *)

NoError == [handle |-> 0, calls |-> <<>>, threw |-> FALSE]

\* typeof errorHandler === 'function': "returns" and "throws" are functions,
\* "none" is undefined and "value" is a value that is no function.
IsFunction(errorHandler) == errorHandler \in {"returns", "throws"}

\* The listener clientFactory attaches, run for an 'error' event of Keyv
\* instance i: logger?.error(...), then errorHandler(err) when it is a
\* function.  `threw' tells whether an exception left the listener.
errorListenerHandlerFirst(m, i) ==
  LET logged == IF m.logger # "none"
                THEN <<[call |-> "logger.error", store |-> i]>> ELSE <<>>
      handled == IF m.errorHandler \in {"returns", "throws"}
                 THEN <<[call |-> "errorHandler", store |-> i]>> ELSE <<>>
  IN [calls |-> handled \o (IF m.errorHandler = "throws" THEN <<>> ELSE logged),
      threw |-> m.errorHandler = "throws"]

errorListener(m, i) ==
  LET logged == IF m.logger # "none"
                THEN <<[call |-> "logger.error", store |-> i]>> ELSE <<>>
      handled == IF IsFunction(m.errorHandler)
                 THEN <<[call |-> "errorHandler", store |-> i]>> ELSE <<>>
  IN [calls |-> logged \o handled, threw |-> m.errorHandler = "throws"]

\* EventEmitter.emit: the listeners run in order, and an exception thrown by
\* one leaves emit at once.
RECURSIVE RunListeners(_, _, _)
RunListeners(m, i, n) ==
  IF n = 0 THEN [calls |-> <<>>, threw |-> FALSE]
  ELSE LET first == errorListener(m, i)
           rest == RunListeners(m, i, n - 1)
       IN IF first.threw THEN first
          ELSE [calls |-> first.calls \o rest.calls, threw |-> rest.threw]

\* Keyv instance i emits 'error'; an 'error' event nobody listens to is thrown.
KeyvEmitError(m, sts, i) ==
  IF sts[i].listeners = 0 THEN [calls |-> <<>>, threw |-> TRUE]
  ELSE RunListeners(m, i, sts[i].listeners)

\* The shared handle emits 'error': every Keyv instance subscribed to it
\* (ls, in subscription order) re-emits the error on itself.
RECURSIVE HandleEmitError(_, _, _)
HandleEmitError(m, sts, ls) ==
  IF ls = <<>> THEN [calls |-> <<>>, threw |-> FALSE]
  ELSE LET first == KeyvEmitError(m, sts, Head(ls))
           rest == HandleEmitError(m, sts, Tail(ls))
       IN IF first.threw THEN first
          ELSE [calls |-> first.calls \o rest.calls, threw |-> rest.threw]

----------------------------------------------------------------------------
(* DefaultCacheClient *)

NoOptions == [defaultTtl |-> Undefined]

\* new DefaultCacheClient(clientFactory(defaultOptions), clientFactory, defaultOptions)
DefaultCacheClient(pluginId, client, options) ==
  [pluginId |-> pluginId, client |-> client, options |-> options, alternates |-> {}]

\* The alternate store instances client c holds for TTL ttl.
Alternates(sts, c, ttl) == {i \in c.alternates : sts[i].ttl = ttl}

\* Whether a call with TTL ttl goes to another store instance than the default.
Overrides(sts, c, ttl) == ttl # Undefined /\ ttl # sts[c.client].ttl

\* Keyv get / set / delete on store instance i.
KeyvGet(hs, sts, i, key) ==
  MapGet(hs[sts[i].store].map, KeyPrefix(sts[i].namespace, key))
KeyvSet(hs, sts, i, key, value) ==
  [hs EXCEPT ![sts[i].store].map = MapSet(@, KeyPrefix(sts[i].namespace, key), value)]
KeyvDelete(hs, sts, i, key) ==
  [hs EXCEPT ![sts[i].store].map = MapDelete(@, KeyPrefix(sts[i].namespace, key))]

----------------------------------------------------------------------------
(* State *)

World == [manager |-> manager, handles |-> handles, stores |-> stores, calls |-> calls]

Install(w) ==
  /\ manager' = w.manager
  /\ handles' = w.handles
  /\ stores' = w.stores
  /\ calls' = w.calls

NoOp == [op |-> "none", client |-> 0, key |-> "", value |-> Undefined, after |-> Undefined]

Configs ==
  [store : Opt(ConfiguredStores), connection : Opt(Connections),
   useRedisSets : Opt(BOOLEAN), defaultTtl : Opt(ManagerTtls),
   onError : ErrorHandlers, logger : Loggers]

Unbuilt ==
  [phase |-> "unbuilt", store |-> "", connection |-> "", useRedisSets |-> TRUE,
   errorHandler |-> "none", logger |-> "none", defaultTtl |-> Undefined,
   redis |-> 0, memcache |-> 0, memory |-> 0]

Empty ==
  /\ handles = <<>>
  /\ stores = <<>>
  /\ calls = <<>>
  /\ clients = <<>>
  /\ lastOp = NoOp
  /\ lastError = NoError
  /\ others = <<>>

----------------------------------------------------------------------------
(* Actions *)

\* CacheManager.fromConfig(config, options)
FromConfig ==
  /\ manager.phase = "unbuilt"
  /\ LET r == fromConfig(handles, config)
     IN /\ manager' = r.manager
        /\ handles' = r.handles
  /\ UNCHANGED <<config, stores, calls, clients, lastOp, lastError, others>>

\* new CacheManager(store, connectionString, useRedisSets, errorHandler, logger, defaultTtl)
New ==
  /\ manager.phase = "unbuilt"
  /\ config.store # Undefined /\ config.connection # Undefined
  /\ config.useRedisSets # Undefined
  /\ LET r == Constructor(handles, config.store[1], config.connection[1],
                          config.useRedisSets[1], config.onError, config.logger,
                          config.defaultTtl)
     IN /\ manager' = r.manager
        /\ handles' = r.handles
  /\ UNCHANGED <<config, stores, calls, clients, lastOp, lastError, others>>

\* manager.forPlugin(pluginId): the object holding getClient is returned, and
\* nothing of the manager changes.
ForPlugin(pluginId) ==
  /\ manager.phase = "built"
  /\ UNCHANGED vars

\* manager.forPlugin(pluginId).getClient(options)
GetClient(pluginId, options) ==
  /\ manager.phase = "built"
  /\ Len(stores) < MaxStores
  /\ LET w == clientFactory(World, pluginId, options)
     IN /\ Install(w)
        /\ clients' = Append(clients, DefaultCacheClient(pluginId, Len(w.stores), options))
  /\ lastOp' = NoOp
  /\ lastError' = NoError
  /\ UNCHANGED <<config, others>>

\* client.withOptions(options)
WithOptions(c, options) ==
  /\ c \in DOMAIN clients
  /\ Len(stores) < MaxStores
  /\ LET merged == [defaultTtl |-> Coalesce(options.defaultTtl, clients[c].options.defaultTtl)]
         w == clientFactory(World, clients[c].pluginId, merged)
     IN /\ Install(w)
        /\ clients' = Append(clients,
                             DefaultCacheClient(clients[c].pluginId, Len(w.stores), merged))
  /\ lastOp' = NoOp
  /\ lastError' = NoError
  /\ UNCHANGED <<config, others>>

\* client.set(key, value, {ttl})
Set(c, key, value, ttl) ==
  /\ c \in DOMAIN clients
  /\ LET cl == clients[c]
         reuse == Alternates(stores, cl, ttl)
     IN IF ~Overrides(stores, cl, ttl)
        THEN /\ handles' = KeyvSet(handles, stores, cl.client, key, value)
             /\ UNCHANGED <<manager, stores, calls, clients>>
        ELSE IF reuse # {}
        THEN /\ handles' = KeyvSet(handles, stores, CHOOSE i \in reuse : TRUE, key, value)
             /\ UNCHANGED <<manager, stores, calls, clients>>
        ELSE /\ Len(stores) < MaxStores
             /\ LET w == clientFactory(World, cl.pluginId, [defaultTtl |-> ttl])
                    i == Len(w.stores)
                IN /\ manager' = w.manager
                   /\ stores' = w.stores
                   /\ calls' = w.calls
                   /\ handles' = KeyvSet(w.handles, w.stores, i, key, value)
                   /\ clients' = [clients EXCEPT ![c].alternates = @ \cup {i}]
  /\ lastOp' = [op |-> "set", client |-> c, key |-> key, value |-> Some(value),
                after |-> Undefined]
  /\ lastError' = NoError
  /\ UNCHANGED <<config, others>>

\* client.get(key)
Get(c, key) ==
  /\ c \in DOMAIN clients
  /\ lastOp' = [op |-> "get", client |-> c, key |-> key,
                value |-> KeyvGet(handles, stores, clients[c].client, key),
                after |-> IF lastOp.op = "set" /\ lastOp.client = c /\ lastOp.key = key
                          THEN lastOp.value ELSE Undefined]
  /\ lastError' = NoError
  /\ UNCHANGED <<config, manager, handles, stores, calls, clients, others>>

\* client.delete(key)
Delete(c, key) ==
  /\ c \in DOMAIN clients
  /\ handles' = KeyvDelete(handles, stores, clients[c].client, key)
  /\ lastOp' = [op |-> "delete", client |-> c, key |-> key, value |-> Undefined,
                after |-> Undefined]
  /\ lastError' = NoError
  /\ UNCHANGED <<config, manager, stores, calls, clients, others>>

\* CacheManager.fromConfig once more in the same process, for the store kind
\* and connection given: the program now holds two managers, and `manager' is
\* the new one.
Another(store, connection) ==
  /\ manager.phase = "built"
  /\ Len(others) + 1 < MaxManagers
  /\ config' = [config EXCEPT !.store = Some(store), !.connection = Some(connection)]
  /\ LET r == fromConfig(handles, config')
     IN /\ manager' = r.manager
        /\ handles' = r.handles
  /\ others' = Append(others, [manager |-> manager, config |-> config])
  /\ lastOp' = NoOp
  /\ lastError' = NoError
  /\ UNCHANGED <<stores, calls, clients>>

\* The program turns to the manager others[i].
Focus(i) ==
  /\ i \in DOMAIN others
  /\ manager' = others[i].manager
  /\ config' = others[i].config
  /\ others' = [others EXCEPT ![i] = [manager |-> manager, config |-> config]]
  /\ lastOp' = NoOp
  /\ lastError' = NoError
  /\ UNCHANGED <<handles, stores, calls, clients>>

\* The backend behind handle h fails: the handle emits 'error'.
BackendError(h) ==
  /\ h \in DOMAIN handles
  /\ handles[h].emitter
  /\ LET r == HandleEmitError(manager, stores, handles[h].listeners)
     IN lastError' = [handle |-> h, calls |-> r.calls, threw |-> r.threw]
  /\ lastOp' = NoOp
  /\ UNCHANGED <<config, manager, handles, stores, calls, clients, others>>

----------------------------------------------------------------------------
(* Specifications *)

\* Construction: from any configuration, then clients are requested.
InitConfig ==
  /\ config \in Configs
  /\ manager = Unbuilt
  /\ Empty

NextConfig ==
  \/ FromConfig
  \/ New
  \/ \E p \in PluginIds : ForPlugin(p)
  \/ \E p \in PluginIds, t \in Opt(CallTtls) : GetClient(p, [defaultTtl |-> t])

SpecConfig == InitConfig /\ [][NextConfig]_vars

\* Use: a manager constructed with a supported store kind serves clients.
Init ==
  /\ config \in Configs
  /\ config.store \in {Some(k) : k \in storeFactories}
  /\ config.connection # Undefined
  /\ config.useRedisSets = Undefined
  /\ LET r == fromConfig(<<>>, config)
     IN /\ manager = r.manager
        /\ handles = r.handles
  /\ stores = <<>>
  /\ calls = <<>>
  /\ clients = <<>>
  /\ lastOp = NoOp
  /\ lastError = NoError
  /\ others = <<>>

\* One step of the program, its inputs drawn from the given sets: plugin ids P,
\* getClient/withOptions TTLs O, keys K and per-call TTLs T.
Step(P, O, K, T) ==
  \/ \E p \in P, t \in O : GetClient(p, [defaultTtl |-> t])
  \/ \E c \in DOMAIN clients, t \in O : WithOptions(c, [defaultTtl |-> t])
  \/ \E c \in DOMAIN clients, k \in K, t \in T :
       \E v \in Values(clients[c].pluginId) : Set(c, k, v, t)
  \/ \E c \in DOMAIN clients, k \in K : Get(c, k)
  \/ \E c \in DOMAIN clients, k \in K : Delete(c, k)
  \/ \E h \in DOMAIN handles : BackendError(h)

Next == Step(PluginIds, Opt(CallTtls), Keys, Opt(CallTtls))

Spec == Init /\ [][Next]_vars

\* Several managers in one process, each serving clients of its own.
ProcessConnections == {"redis://h", "redis://g"}

InitProcess ==
  /\ config \in [store : {Some(k) : k \in storeFactories},
                 connection : {Some(c) : c \in Connections},
                 useRedisSets : {Undefined}, defaultTtl : {Undefined},
                 onError : {"none"}, logger : {"none"}]
  /\ LET r == fromConfig(<<>>, config)
     IN /\ manager = r.manager
        /\ handles = r.handles
  /\ stores = <<>>
  /\ calls = <<>>
  /\ clients = <<>>
  /\ lastOp = NoOp
  /\ lastError = NoError
  /\ others = <<>>

NextProcess ==
  \/ \E k \in storeFactories, c \in ProcessConnections : Another(k, c)
  \/ \E i \in DOMAIN others : Focus(i)
  \/ \E p \in PluginIds : GetClient(p, NoOptions)

SpecProcess == InitProcess /\ [][NextProcess]_vars

\* Plugin ids and keys that contain the separator of KeyPrefix: the id "a:b"
\* with the key "x", and the id "a" with the key "b:x".
ColonPluginIds == {"a", "a:b"}
ColonKeys == {"x", "b:x"}

InitKeys == InitProcess

NextKeys == Step(ColonPluginIds, {Undefined}, ColonKeys, {Undefined})

SpecKeys == InitKeys /\ [][NextKeys]_vars

\* Error routing: a manager of any kind, constructed with any logger and any
\* value for the error handler, serves clients and meets backend errors.
SuppliedHandlers == ErrorHandlers \cup {"value"}

InitErrors ==
  /\ config \in [store : {Some(k) : k \in storeFactories},
                 connection : {Some(c) : c \in Connections},
                 useRedisSets : {Undefined}, defaultTtl : {Undefined},
                 onError : SuppliedHandlers, logger : Loggers]
  /\ LET r == fromConfig(<<>>, config)
     IN /\ manager = r.manager
        /\ handles = r.handles
  /\ stores = <<>>
  /\ calls = <<>>
  /\ clients = <<>>
  /\ lastOp = NoOp
  /\ lastError = NoError
  /\ others = <<>>

NextErrors == Step(PluginIds, {Undefined}, Keys, Opt(CallTtls))

SpecErrors == InitErrors /\ [][NextErrors]_vars

----------------------------------------------------------------------------
(* Properties *)

Count(seq, what) == Cardinality({j \in DOMAIN seq : seq[j].call = what})

\* C1: on the memory backend, a get through a client of one plugin never
\* returns a value written through a client of another plugin, although all
\* clients are views of the manager's single Map.
NamespaceIsolation ==
  (manager.store = "memory" /\ lastOp.op = "get" /\ lastOp.value # Undefined)
    => lastOp.value[1] \in Values(clients[lastOp.client].pluginId)

NamespaceIsolationWitness ==
  /\ manager.store = "memory"
  /\ lastOp.op = "get"
  /\ lastOp.value = Some("a1")
  /\ clients[lastOp.client].pluginId = "a"
  /\ MapGet(handles[manager.memory].map, KeyPrefix("b", lastOp.key)) = Some("b1")
  /\ \A i \in DOMAIN stores : stores[i].store = manager.memory

\* C2: at most one shared store handle of the selected kind is ever
\* constructed, whatever clients and TTL-variant stores were created.
SingleHandle ==
  Cardinality({h \in DOMAIN handles : handles[h].kind = manager.store}) <= 1

SingleHandleWitness ==
  /\ manager.store = "redis"
  /\ Cardinality({h \in DOMAIN handles : handles[h].kind = "redis"}) = 1
  /\ \E i, j \in DOMAIN stores : stores[i].namespace # stores[j].namespace
  /\ \E c \in DOMAIN clients : clients[c].alternates # {}

\* C3: a backend error reaches the logger exactly once (when a logger was
\* injected) and the external handler exactly once (when one was supplied),
\* however many store instances exist over the shared handle.
ErrorRoutedOnce ==
  lastError.handle # 0 =>
    /\ Count(lastError.calls, "logger.error") = (IF manager.logger # "none" THEN 1 ELSE 0)
    /\ Count(lastError.calls, "errorHandler") =
         (IF manager.errorHandler # "none" THEN 1 ELSE 0)

\* C4: handling a backend error never lets an exception leave the listener,
\* whatever the external handler does.
ErrorNeverThrows == ~lastError.threw

\* C5: every store instance created for a client, the eager default and each
\* TTL-variant, carries exactly one error listener of the manager, and every
\* store instance belongs to a client.
ListenerAttached ==
  /\ \A i \in DOMAIN stores : stores[i].listeners = 1
  /\ \A i \in DOMAIN stores :
       \E c \in DOMAIN clients : i = clients[c].client \/ i \in clients[c].alternates

ListenerAttachedWitness ==
  \E c \in DOMAIN clients :
    /\ clients[c].alternates # {}
    /\ stores[clients[c].client].listeners = 1
    /\ \A i \in clients[c].alternates : stores[i].listeners = 1

\* C7: every store is built with the TTL given for it when one is given (0
\* included), else with the manager's default TTL when there is one, else
\* with no TTL.
TtlResolution ==
  \A i \in DOMAIN stores :
    LET given == calls[i].options.defaultTtl
    IN /\ given # Undefined => stores[i].ttl = given
       /\ (given = Undefined /\ manager.defaultTtl # Undefined)
            => stores[i].ttl = manager.defaultTtl
       /\ (given = Undefined /\ manager.defaultTtl = Undefined)
            => stores[i].ttl = Undefined

TtlResolutionWitness ==
  /\ manager.defaultTtl = Some(7)
  /\ \E i \in DOMAIN stores :
       calls[i].options.defaultTtl = Some(0) /\ stores[i].ttl = Some(0)
  /\ \E i \in DOMAIN stores :
       calls[i].options.defaultTtl = Undefined /\ stores[i].ttl = Some(7)

\* C8: no step changes the TTL of an existing store instance or the default
\* store of an existing client, and a client created with no TTL override has
\* a default store with the manager's default TTL.
TtlFrame ==
  [][/\ \A i \in DOMAIN stores : stores'[i].ttl = stores[i].ttl
     /\ \A c \in DOMAIN clients : clients'[c].client = clients[c].client
     /\ \A c \in DOMAIN clients' :
          clients'[c].options.defaultTtl = Undefined
            => stores'[clients'[c].client].ttl = manager'.defaultTtl]_vars

TtlFrameWitness ==
  /\ manager.defaultTtl = Some(7)
  /\ \E c, d \in DOMAIN clients :
       /\ c # d
       /\ clients[c].pluginId = clients[d].pluginId
       /\ clients[c].options.defaultTtl = Undefined
       /\ stores[clients[c].client].ttl = Some(7)
       /\ clients[c].alternates # {}
       /\ stores[clients[d].client].ttl = Some(0)

\* C9: a get that directly follows a set of the same key through the same
\* client returns the value set.
RoundTrip ==
  (lastOp.op = "get" /\ lastOp.after # Undefined) => lastOp.value = lastOp.after

RoundTripWitness ==
  /\ lastOp.op = "get"
  /\ lastOp.after # Undefined
  /\ lastOp.value = lastOp.after
  /\ manager.store = "redis"
  /\ Len(clients) > 1

\* C6: construction fails exactly when the store kind is none of memory,
\* redis and memcache, and a manager whose construction failed never serves
\* a client.
ConstructorFailsFast ==
  manager.phase # "unbuilt" =>
    /\ manager.phase = "failed" <=> manager.store \notin {"memory", "redis", "memcache"}
    /\ manager.phase = "failed" => (stores = <<>> /\ clients = <<>>)

ConstructorFailsFastWitness ==
  /\ manager.phase = "failed"
  /\ manager.store = "postgres"

\* C10: fromConfig selects memory when no store is configured and the
\* configured kind otherwise, reads an absent useRedisSets as true and keeps a
\* configured false, and reads an absent connection as the empty string.
FromConfigDefaults ==
  manager.phase # "unbuilt" =>
    /\ config.store = Undefined => manager.store = "memory"
    /\ config.store # Undefined => manager.store = config.store[1]
    /\ config.useRedisSets = Undefined => manager.useRedisSets = TRUE
    /\ config.useRedisSets # Undefined => manager.useRedisSets = config.useRedisSets[1]
    /\ config.connection = Undefined => manager.connection = ""
    /\ config.connection # Undefined => manager.connection = config.connection[1]

FromConfigDefaultsWitness ==
  /\ manager.phase = "built"
  /\ config.store = Undefined
  /\ manager.store = "memory"
  /\ config.useRedisSets = Some(FALSE)
  /\ manager.useRedisSets = FALSE
  /\ config.connection = Undefined
  /\ manager.connection = ""
  /\ stores # <<>>

\* C12: for redis and memcache no handle exists while no client was requested,
\* whatever forPlugin calls were made; from the first getClient on there is
\* one handle, built from the manager's connection string, and every store
\* instance uses it.
LazyHandle ==
  (manager.phase = "built" /\ manager.store \in {"redis", "memcache"}) =>
    LET hs == {h \in DOMAIN handles : handles[h].kind = manager.store}
    IN /\ stores = <<>> => hs = {}
       /\ stores # <<>> =>
            \E h \in hs :
              /\ hs = {h}
              /\ handles[h].connection = manager.connection
              /\ handles[h].connection =
                   (IF config.connection = Undefined THEN "" ELSE config.connection[1])
              /\ \A i \in DOMAIN stores : stores[i].store = h

LazyHandleWitness ==
  /\ manager.store = "memcache"
  /\ Len(stores) >= 2
  /\ \E h \in DOMAIN handles :
       /\ handles[h].kind = "memcache"
       /\ handles[h].connection = "redis://h"
       /\ \A i \in DOMAIN stores : stores[i].store = h

\* C13 as claimed: no handle of a kind other than the selected one, network
\* client or in-process map, has been constructed.
OnlySelectedKind ==
  \A h \in DOMAIN handles : handles[h].kind = manager.store

\* C13 as amended: no network handle of a kind other than the selected one
\* has been constructed; the in-process Map is constructed once with the
\* manager, whatever kind is selected.
OnlySelectedNetworkHandle ==
  /\ \A h \in DOMAIN handles :
       handles[h].kind # "memory" => handles[h].kind = manager.store
  /\ Cardinality({h \in DOMAIN handles : handles[h].kind = "memory"}) = 1

OnlySelectedNetworkHandleWitness ==
  /\ manager.store = "memcache"
  /\ stores # <<>>
  /\ \E h \in DOMAIN handles : handles[h].kind = "memcache"
  /\ \E h \in DOMAIN handles :
       handles[h].kind = "memory" /\ \A i \in DOMAIN stores : stores[i].store # h

\* C14: every store instance of a client, the default and each TTL-variant,
\* has the client's plugin id as namespace and the handle of the selected
\* kind as store; the store instances of one client differ in the TTL only.
StoreIdentity ==
  \A c \in DOMAIN clients :
    \A i \in {clients[c].client} \cup clients[c].alternates :
      /\ stores[i].namespace = clients[c].pluginId
      /\ calls[i].pluginId = clients[c].pluginId
      /\ handles[stores[i].store].kind = manager.store
      /\ [stores[i] EXCEPT !.ttl = Undefined]
           = [stores[clients[c].client] EXCEPT !.ttl = Undefined]

StoreIdentityWitness ==
  /\ manager.store = "memcache"
  /\ \E c \in DOMAIN clients :
       /\ clients[c].pluginId = "b"
       /\ stores[clients[c].client].namespace = "b"
       /\ \E i \in clients[c].alternates :
            /\ stores[i].namespace = "b"
            /\ stores[i].ttl # stores[clients[c].client].ttl

\* C16: the clients and store instances of one plugin id are views of one
\* namespace: they all read the same value for a key, and a value set through
\* one of them is what each of them reads.
SharedNamespaceView ==
  /\ \A i, j \in DOMAIN stores :
       calls[i].pluginId = calls[j].pluginId =>
         \A k \in Keys : KeyvGet(handles, stores, i, k) = KeyvGet(handles, stores, j, k)
  /\ lastOp.op = "set" =>
       \A d \in DOMAIN clients :
         clients[d].pluginId = clients[lastOp.client].pluginId =>
           KeyvGet(handles, stores, clients[d].client, lastOp.key) = lastOp.value

SharedNamespaceViewWitness ==
  /\ lastOp.op = "set"
  /\ clients[lastOp.client].alternates # {}
  /\ \E d \in DOMAIN clients :
       /\ d # lastOp.client
       /\ clients[d].pluginId = clients[lastOp.client].pluginId
       /\ stores[clients[d].client].ttl # stores[clients[lastOp.client].client].ttl
       /\ KeyvGet(handles, stores, clients[d].client, lastOp.key) = lastOp.value

Managers == {manager} \cup {others[i].manager : i \in DOMAIN others}
Slots(m) == {m.redis, m.memcache, m.memory} \ {0}

\* C11 as claimed: over all managers of the process, at most one handle is
\* constructed of each store kind that some manager selected.
ProcessWideSingleton ==
  \A m \in Managers :
    Cardinality({h \in DOMAIN handles : handles[h].kind = m.store}) <= 1

\* C11 as amended: the shared handle is one per manager: every handle ever
\* constructed is held by the factory slot of exactly one manager, so that a
\* manager constructs at most one handle of its kind and no two managers
\* share one; every store instance is over a handle of the selected kind.
PerManagerSingleton ==
  /\ \A h \in DOMAIN handles :
       Cardinality({m \in Managers : h \in Slots(m)}) = 1
  /\ \A m \in Managers :
       /\ m.redis # 0 => handles[m.redis].kind = "redis"
       /\ m.memcache # 0 => handles[m.memcache].kind = "memcache"
       /\ handles[m.memory].kind = "memory"
       /\ Cardinality({h \in Slots(m) : handles[h].kind = m.store}) <= 1
  /\ \A i \in DOMAIN stores :
       \E m \in Managers :
         stores[i].store \in Slots(m) /\ handles[stores[i].store].kind = m.store

PerManagerSingletonWitness ==
  /\ others # <<>>
  /\ manager.store = "redis"
  /\ others[1].manager.store = "redis"
  /\ manager.redis # 0
  /\ others[1].manager.redis # 0
  /\ manager.redis # others[1].manager.redis
  /\ \E i, j \in DOMAIN stores :
       stores[i].store = manager.redis /\ stores[j].store = others[1].manager.redis

\* C15: a set or a delete through a client of one plugin leaves unchanged what
\* get(k) returns, for every key k, through every client of another plugin.
KeyMappingInjective ==
  [][\A c \in DOMAIN clients :
       (/\ lastOp'.op \in {"set", "delete"}
        /\ clients[c].pluginId # clients[lastOp'.client].pluginId)
         => \A k \in ColonKeys :
              KeyvGet(handles', stores', clients[c].client, k)
                = KeyvGet(handles, stores, clients[c].client, k)]_vars

====
